---- MODULE Spec2Model ----
(***************************************************************************)
(* Model of the analytics code of the dashboard repository:                *)
(*   src/app.py               single-asset strategies, metrics, page flow  *)
(*   src/quant_b_portfolio.py price matrix, portfolio aggregation, stats   *)
(*   src/scripts/daily_report.py  report metrics                           *)
(*                                                                         *)
(* Floating-point numbers are modelled as exact rationals extended with    *)
(* NaN and +/-inf (records [k, n, d]); IEEE rounding is not modelled.      *)
(* Python index t is TLA+ index t+1.                                       *)
(***************************************************************************)
EXTENDS Integers, Sequences, FiniteSets, TLC

VARIABLES
    df,        \* strategies: the cleaned price series handed to a strategy
    out,       \* strategies: the StrategyResult columns of the last call
    call,      \* strategies: which strategy ran, with which parameters
    series,    \* metrics: the returns / values sequence handed to a metric
    metric,    \* metrics: the metric function that ran and what it returned
    returns_m, \* portfolio: the return matrix [columns, rows] to aggregate
    weights,   \* portfolio: the weight mapping (asset -> weight)
    port,      \* portfolio: the outcome of compute_portfolio_returns
    page_msg,  \* portfolio: the error the portfolio page shows, "" if none
    assets,    \* price matrix: the labels passed to build_price_matrix
    feeds,     \* price matrix: what the price API answers for each label
    prices_m,  \* price matrix: the outcome of build_price_matrix
    pc,        \* page: where the script of app.py stands in its pass
    event,     \* page: the user interaction that started the pass
    widgets,   \* page: the strategy and slider values the user has set
    csv,       \* page: data/prices.csv, [exists, rows, last_click]
    locals,    \* page: the script's strat, fast, slow, window, can_run, n
    shown,     \* page: the messages shown in this pass
    invoked,   \* page: the strategy and metric calls made in this pass
    raw,       \* loading: data/prices.csv as written, [exists, rows]
    loaded,    \* loading: the cleaning that ran and the frame it produced
    stats      \* portfolio statistics: what basic_stats returned

stratVars == <<df, out, call>>

metricVars == <<series, metric>>

portVars == <<returns_m, weights, port, page_msg>>

buildVars == <<assets, feeds, prices_m>>

pageVars == <<pc, event, widgets, csv, locals, shown, invoked>>

loadVars == <<raw, loaded>>

vars == <<stratVars, metricVars, portVars, buildVars, pageVars, loadVars, stats>>

\* ---------------------------------------------------------------- bounds
MaxLen == 4
MaxPrice == 3
MaxWin == 3
MaxSeries == 4
MaxNum == 2
MaxRows == 1
MaxW == 3
MaxT == 3
MaxSlider == 4
MaxData == 6
MaxCsv == 4
MaxStamp == 2

\* ------------------------------------------------- numbers (float model)
Abs(a) == IF a < 0 THEN -a ELSE a

RECURSIVE GCD(_, _)
GCD(a, b) == IF b = 0 THEN a ELSE GCD(b, a % b)

NaN == [k |-> "nan", n |-> 0, d |-> 1]

Inf(s) == [k |-> "inf", n |-> s, d |-> 1]

\* The rational n/d (d # 0) in lowest terms with a positive denominator.
Rat(n, d) ==
    LET g == GCD(Abs(n), Abs(d))
        s == IF d < 0 THEN -1 ELSE 1
    IN  [k |-> "num", n |-> (s * n) \div g, d |-> (s * d) \div g]

Zero == Rat(0, 1)

One == Rat(1, 1)

Sign(x) == IF x.n > 0 THEN 1 ELSE IF x.n < 0 THEN -1 ELSE 0

IsNaN(x) == x.k = "nan"

Neg(x) == [x EXCEPT !.n = -x.n]

Add(x, y) ==
    IF IsNaN(x) \/ IsNaN(y) THEN NaN
    ELSE IF x.k = "inf" THEN (IF y.k = "inf" /\ y.n # x.n THEN NaN ELSE x)
    ELSE IF y.k = "inf" THEN y
    ELSE Rat(x.n * y.d + y.n * x.d, x.d * y.d)

Sub(x, y) == Add(x, Neg(y))

Mul(x, y) ==
    IF IsNaN(x) \/ IsNaN(y) THEN NaN
    ELSE IF x.k = "inf" \/ y.k = "inf"
         THEN (IF Sign(x) * Sign(y) = 0 THEN NaN ELSE Inf(Sign(x) * Sign(y)))
    ELSE Rat(x.n * y.n, x.d * y.d)

\* Float division: x/0 is +/-inf, 0/0 is NaN (numpy semantics, no exception).
Div(x, y) ==
    IF IsNaN(x) \/ IsNaN(y) THEN NaN
    ELSE IF x.k = "inf"
         THEN (IF y.k = "inf" THEN NaN
               ELSE Inf(IF Sign(y) < 0 THEN -x.n ELSE x.n))
    ELSE IF y.k = "inf" THEN Zero
    ELSE IF y.n = 0 THEN (IF x.n = 0 THEN NaN ELSE Inf(Sign(x)))
    ELSE Rat(x.n * y.d, x.d * y.n)

\* x > y on floats: any comparison with NaN is False.
Gt(x, y) ==
    IF IsNaN(x) \/ IsNaN(y) THEN FALSE
    ELSE IF x.k = "inf" THEN x.n = 1 /\ ~(y.k = "inf" /\ y.n = 1)
    ELSE IF y.k = "inf" THEN y.n = -1
    ELSE x.n * y.d > y.n * x.d

\* Series.fillna(v)
FillNa(s, v) == [i \in DOMAIN s |-> IF IsNaN(s[i]) THEN v ELSE s[i]]

\* Series.shift(1): the value of the previous row, NaN on the first row.
Shift1(s) == [i \in DOMAIN s |-> IF i = 1 THEN NaN ELSE s[i - 1]]

\* Series.pct_change(w): s[t]/s[t-w] - 1, NaN on the first w rows.
PctChange(s, w) ==
    [i \in DOMAIN s |-> IF i - w < 1 THEN NaN ELSE Sub(Div(s[i], s[i - w]), One)]

RECURSIVE SumRange(_, _, _)
SumRange(s, lo, hi) == IF lo > hi THEN Zero ELSE Add(s[lo], SumRange(s, lo + 1, hi))

\* Series.rolling(w).mean(): mean of the last w rows, NaN until w rows exist.
RollingMean(s, w) ==
    [i \in DOMAIN s |->
        IF w < 1 \/ i - w + 1 < 1 THEN NaN
        ELSE Div(SumRange(s, i - w + 1, i), Rat(w, 1))]

\* Fault variant of CumProd: a running sum (cumsum written for cumprod).
CumSumForProd(s) == [i \in DOMAIN s |-> SumRange(s, 1, i)]

\* Series.cumprod(): running product; a NaN row stays NaN and is skipped.
RECURSIVE CumProdAcc(_, _)
CumProdAcc(s, i) ==
    IF i = 0 THEN One
    ELSE IF IsNaN(s[i]) THEN CumProdAcc(s, i - 1)
    ELSE Mul(CumProdAcc(s, i - 1), s[i])

CumProd(s) == [i \in DOMAIN s |-> IF IsNaN(s[i]) THEN NaN ELSE CumProdAcc(s, i)]

OnePlus(s) == [i \in DOMAIN s |-> Add(One, s[i])]

\* Element-wise product of two co-indexed columns.
Times(a, b) == [i \in DOMAIN a |-> Mul(a[i], b[i])]

\* ------------------------------------------------------------ strategies
PriceColumn(p) == [i \in DOMAIN p |-> Rat(p[i], 1)]

Returns0(price) == FillNa(PctChange(price, 1), Zero)

NoColumn == << >>

buy_and_hold(p) ==
    LET price == PriceColumn(p)
        ret == Returns0(price)
    IN  [ret |-> ret, sma_fast |-> NoColumn, sma_slow |-> NoColumn,
         mom |-> NoColumn, pos |-> NoColumn,
         strat_ret |-> ret, strat_value |-> CumProd(OnePlus(ret))]

\* Fault variant of PosWhereGt: >= written for >, a tie takes a position.
PosWhereGe(a, b) ==
    [i \in DOMAIN a |-> IF Gt(a[i], b[i]) \/ (~IsNaN(a[i]) /\ a[i] = b[i]) THEN One ELSE Zero]

\* out["pos"] = 0; out.loc[a > b, "pos"] = 1
PosWhereGt(a, b) == [i \in DOMAIN a |-> IF Gt(a[i], b[i]) THEN One ELSE Zero]

\* Fault variant of LaggedPos: the shift left out, the position of the same row.
UnlaggedPos(pos) == FillNa(pos, Zero)

\* out["pos"].shift(1).fillna(0)
LaggedPos(pos) == FillNa(Shift1(pos), Zero)

sma_crossover(p, fast, slow) ==
    LET price == PriceColumn(p)
        ret == Returns0(price)
        sf == RollingMean(price, fast)
        ss == RollingMean(price, slow)
        pos == FillNa(PosWhereGt(sf, ss), Zero)
        sr == Times(LaggedPos(pos), ret)
    IN  [ret |-> ret, sma_fast |-> sf, sma_slow |-> ss, mom |-> NoColumn,
         pos |-> pos, strat_ret |-> sr, strat_value |-> CumProd(OnePlus(sr))]

momentum_strategy(p, window) ==
    LET price == PriceColumn(p)
        ret == Returns0(price)
        mom == PctChange(price, window)
        pos == PosWhereGt(mom, [i \in DOMAIN mom |-> Zero])
        sr == Times(LaggedPos(pos), ret)
    IN  [ret |-> ret, sma_fast |-> NoColumn, sma_slow |-> NoColumn, mom |-> mom,
         pos |-> pos, strat_ret |-> sr, strat_value |-> CumProd(OnePlus(sr))]


\* --------------------------------------------------------------- metrics
\* sharpe_ratio and annual_volatility involve square roots; the model returns
\* such a value x as its signed square x*|x| (0 exactly when x is 0, NaN and
\* +/-inf kept), so products and quotients of roots stay rational.
PeriodsPerYear == 365

AbsF(x) == IF x.n < 0 THEN Neg(x) ELSE x

SignedSq(x) == Mul(x, AbsF(x))

\* Series.dropna()
DropNa(s) == SelectSeq(s, LAMBDA x : ~IsNaN(x))

\* Series.mean() of a series without NaN (0/0 = NaN when empty)
Mean(r) == Div(SumRange(r, 1, Len(r)), Rat(Len(r), 1))

\* Series.std() squared: the sample (n-1) variance; NaN for a single row.
Var(r) ==
    LET m == Mean(r)
        sq == [i \in DOMAIN r |-> Mul(Sub(r[i], m), Sub(r[i], m))]
    IN  Div(SumRange(sq, 1, Len(r)), Rat(Len(r) - 1, 1))

\* Fault variant of StdIsZero: the zero-deviation guard left out.
StdIsZeroNever(r) == FALSE

\* r.std() == 0
StdIsZero(r) == Var(r) = Zero

sharpe_ratio(returns) ==
    LET r == DropNa(returns)
    IN  IF Len(r) < 2 THEN Zero
        ELSE IF StdIsZero(r) THEN Zero
        ELSE Div(Mul(Rat(PeriodsPerYear, 1), SignedSq(Mean(r))), Var(r))

annual_volatility(returns) ==
    LET r == DropNa(returns)
    IN  IF Len(r) < 2 THEN Zero
        ELSE Mul(Rat(PeriodsPerYear, 1), Var(r))

\* max over the non-NaN rows of s[1..i]
RECURSIVE MaxUpTo(_, _)
MaxUpTo(s, i) ==
    IF i = 0 THEN NaN
    ELSE LET m == MaxUpTo(s, i - 1)
         IN  IF IsNaN(s[i]) THEN m
             ELSE IF IsNaN(m) \/ Gt(s[i], m) THEN s[i] ELSE m

\* Series.cummax(): running maximum; a NaN row stays NaN.
CumMax(s) == [i \in DOMAIN s |-> IF IsNaN(s[i]) THEN NaN ELSE MaxUpTo(s, i)]

\* Series.min(): the minimum of the non-NaN rows, NaN when there is none.
RECURSIVE MinUpTo(_, _)
MinUpTo(s, i) ==
    IF i = 0 THEN NaN
    ELSE LET m == MinUpTo(s, i - 1)
         IN  IF IsNaN(s[i]) THEN m
             ELSE IF IsNaN(m) \/ Gt(m, s[i]) THEN s[i] ELSE m

SeriesMin(s) == MinUpTo(s, Len(s))

Drawdown(values) ==
    LET peak == CumMax(values)
    IN  [i \in DOMAIN values |-> Sub(Div(values[i], peak[i]), One)]

max_drawdown(values) == SeriesMin(Drawdown(values))

\* scripts/daily_report.py carries its own copy of max_drawdown.
report_max_drawdown(values) ==
    LET roll_max == CumMax(values)
        dd == [i \in DOMAIN values |-> Sub(Div(values[i], roll_max[i]), One)]
    IN  SeriesMin(dd)

NoMetric == [fn |-> "none", val |-> Zero]

\* ------------------------------------------------- portfolio statistics
NoStats == [fn |-> "none", empty |-> TRUE, mean_return |-> Zero, volatility |-> Zero,
            annualized_return |-> [base |-> One, exp |-> 0],
            annualized_volatility |-> Zero, max_drawdown |-> Zero, final_value |-> Zero,
            panel |-> ""]

\* Series.std() squared, NaN skipped: the sample (n-1) variance, NaN when
\* fewer than two values are left (0/0).
StdSq(s) == IF DropNa(s) = << >> THEN NaN ELSE Var(DropNa(s))

\* basic_stats: {} for an empty series, else the six statistics. volatility
\* and annualized_volatility are returned as squares (std^2 and 365*std^2);
\* annualized_return (1 + mean)^365 - 1 is kept as its base and exponent.
basic_stats(returns) ==
    IF returns = << >> THEN [NoStats EXCEPT !.fn = "basic_stats"]
    ELSE LET mean_ret == Mean(DropNa(returns))
             vol == StdSq(returns)
             ann_vol == Mul(vol, Rat(PeriodsPerYear, 1))
             cumulative == CumProd(OnePlus(returns))
             rolling_max == CumMax(cumulative)
             drawdown == [i \in DOMAIN returns |->
                             Sub(Div(cumulative[i], rolling_max[i]), One)]
             max_dd == SeriesMin(drawdown)
         IN  [fn |-> "basic_stats", empty |-> FALSE,
              mean_return |-> mean_ret, volatility |-> vol,
              annualized_return |-> [base |-> Add(One, mean_ret), exp |-> PeriodsPerYear],
              annualized_volatility |-> ann_vol,
              max_drawdown |-> max_dd,
              final_value |-> cumulative[Len(returns)],
              panel |-> ""]

NotEnoughData == "Not enough data to compute statistics."

\* f"{x*100:.1f} %": the text printed for a statistic, "nan %" for NaN (the
\* digits of a number are not modelled).
FormatPercent(x) == IF IsNaN(x) THEN "nan %" ELSE IF x.k = "inf" THEN "inf %" ELSE "number %"

\* run_quant_b_page, section 4: the info box for {} and nothing more, else
\* the metric tiles; panel is the text of the annualized-volatility tile.
indicators(st) ==
    IF st.empty THEN NotEnoughData ELSE FormatPercent(st.annualized_volatility)


\* ------------------------------------------------------------- portfolio
SumZeroError == "Sum of weights is zero."

NoAssetsError == "No assets provided"

\* weights.get(col, 0.0)
WeightGet(wmap, col) == IF col \in DOMAIN wmap THEN wmap[col] ELSE Zero

\* w = np.array([weights.get(col, 0.0) for col in returns.columns])
WeightVector(columns, wmap) == [i \in DOMAIN columns |-> WeightGet(wmap, columns[i])]

\* ndarray.sum(): plain sum, 0 for an empty array
ArraySum(w) == SumRange(w, 1, Len(w))

\* Fault variant of WeightsInvalid: the zero-sum check left out.
WeightsInvalidNever(w) == FALSE

\* Fault variant of WeightsInvalid: the check skipped for an empty weight vector.
WeightsInvalidNonEmpty(w) == Len(w) > 0 /\ ArraySum(w) = Zero

\* w.sum() == 0
WeightsInvalid(w) == ArraySum(w) = Zero

\* Fault variant of Normalise: the weights used as declared.
NormaliseSkipped(w) == w

\* w / w.sum()
Normalise(w) == [i \in DOMAIN w |-> Div(w[i], ArraySum(w))]

\* DataFrame.sum(axis=1) of one row: NaN cells are skipped
RowSum(row) == SumRange(FillNa(row, Zero), 1, Len(row))

\* The outcome of a call: raised/error when it raises, else the series;
\* divisions counts the evaluations of w / w.sum().
compute_portfolio_returns(returns, wmap) ==
    LET w == WeightVector(returns.columns, wmap)
    IN  IF WeightsInvalid(w)
        THEN [status |-> "raised", error |-> SumZeroError, divisions |-> 0,
              w |-> << >>, port_ret |-> << >>]
        ELSE LET wn == Normalise(w)
             IN  [status |-> "returned", error |-> "", divisions |-> 1, w |-> wn,
                  port_ret |-> [t \in DOMAIN returns.rows |->
                                   RowSum(Times(returns.rows[t], wn))]]

\* ---------------------------------------------------------- price matrix
\* The API answer for one asset: the HTTP status and the timestamps of its
\* "prices" list; the price quoted for a label at a timestamp is fixed.
Quote(label, ts) == 10 * (CHOOSE i \in 1 .. 3 : <<"A", "B", "C">>[i] = label) + ts

RECURSIVE SortedSeq(_)
SortedSeq(S) ==
    IF S = {} THEN << >>
    ELSE LET m == CHOOSE x \in S : \A y \in S : x <= y
         IN  <<m>> \o SortedSeq(S \ {m})

\* fetch_price_history: raises on a non-200 status or an empty "prices" list,
\* else the series indexed by timestamp (ts -> price).
fetch_price_history(label, feed) ==
    IF feed.status # 200
    THEN [status |-> "raised", error |-> "API error", price |-> << >>]
    ELSE IF feed.ts = {}
    THEN [status |-> "raised", error |-> "No 'prices' field", price |-> << >>]
    ELSE [status |-> "returned", error |-> "",
          price |-> [t \in feed.ts |-> Rat(Quote(label, t), 1)]]

\* pd.concat(all_series, axis=1): rows are the union of the indexes, a cell
\* is NaN where the column's series has no such timestamp.
ConcatColumns(labels, fetched) ==
    LET index == UNION {DOMAIN fetched[l].price : l \in DOMAIN fetched}
    IN  [t \in index |->
            [i \in DOMAIN labels |->
                IF t \in DOMAIN fetched[labels[i]].price
                THEN fetched[labels[i]].price[t] ELSE NaN]]

\* Fault variant of DropNaRows: the dropna left out (an outer join).
DropNaRowsSkipped(frame) == frame

\* DataFrame.dropna(): keep the rows without any NaN cell
DropNaRows(frame) ==
    LET keep == {t \in DOMAIN frame : \A i \in DOMAIN frame[t] : ~IsNaN(frame[t][i])}
    IN  [t \in keep |-> frame[t]]

build_price_matrix(labels, answer) ==
    LET fetched == [l \in {labels[i] : i \in DOMAIN labels} |->
                        fetch_price_history(l, answer[l])]
        failed == {i \in DOMAIN labels : fetched[labels[i]].status = "raised"}
    IN  IF failed # {}
        THEN [status |-> "raised",
              error |-> fetched[labels[CHOOSE i \in failed : \A j \in failed : i <= j]].error,
              columns |-> << >>, index |-> << >>, cell |-> << >>]
        ELSE IF Len(labels) = 0
        THEN [status |-> "raised", error |-> NoAssetsError,
              columns |-> << >>, index |-> << >>, cell |-> << >>]
        ELSE LET frame == DropNaRows(ConcatColumns(labels, fetched))
             IN  [status |-> "returned", error |-> "", columns |-> labels,
                  index |-> SortedSeq(DOMAIN frame), cell |-> frame]

NoPort == [status |-> "idle", error |-> "", divisions |-> 0, w |-> << >>,
           port_ret |-> << >>]

NoMatrix == [status |-> "idle", error |-> "", columns |-> << >>, index |-> << >>,
             cell |-> << >>]

NoReturns == [columns |-> << >>, rows |-> << >>]

PortfolioIdle ==
    /\ returns_m = NoReturns
    /\ weights = << >>
    /\ port = NoPort
    /\ page_msg = ""

BuildIdle ==
    /\ assets = << >>
    /\ feeds = << >>
    /\ prices_m = NoMatrix


\* ------------------------------------------------- single-asset page
DefaultFast == 5

DefaultSlow == 10

DefaultWindow == 3

MinFast == 2

MinSlow == 3

MinWindow == 2

MinRowsToBacktest == 5

SlowWarning == "Set SMA slow > SMA fast."

NotReadyInfo == "Strategy not ready (check parameters)."

NotEnoughInfo == "Not enough data yet. Save a few prices."

Strategies == {"Buy & Hold", "SMA crossover", "Momentum"}

\* Fault variant of CanRun: the validation result ignored.
CanRunAlways(strat, fast, slow) == TRUE

\* can_run after the parameter block: False only for SMA with slow <= fast.
CanRun(strat, fast, slow) == ~(strat = "SMA crossover" /\ slow <= fast)

\* The parameter block: defaults, overridden by the sliders of the selected
\* strategy; n is len(df) of the data loaded in this pass.
ReadParams(w, n) ==
    LET fast == IF w.strat = "SMA crossover" THEN w.fast ELSE DefaultFast
        slow == IF w.strat = "SMA crossover" THEN w.slow ELSE DefaultSlow
        window == IF w.strat = "Momentum" THEN w.window ELSE DefaultWindow
    IN  [strat |-> w.strat, fast |-> fast, slow |-> slow, window |-> window,
         can_run |-> CanRun(w.strat, fast, slow), n |-> n]

\* The strategy call the dispatch makes, then the four metric calls.
StrategyCall(l) ==
    IF l.strat = "Buy & Hold" THEN [fn |-> "buy_and_hold", a |-> 0, b |-> 0]
    ELSE IF l.strat = "SMA crossover"
    THEN [fn |-> "sma_crossover", a |-> l.fast, b |-> l.slow]
    ELSE [fn |-> "momentum_strategy", a |-> l.window, b |-> 0]

MetricCalls ==
    <<[fn |-> "total_return", a |-> 0, b |-> 0],
      [fn |-> "annual_volatility", a |-> 0, b |-> 0],
      [fn |-> "max_drawdown", a |-> 0, b |-> 0],
      [fn |-> "sharpe_ratio", a |-> 0, b |-> 0]>>

NoLocals == [strat |-> "", fast |-> DefaultFast, slow |-> DefaultSlow,
             window |-> DefaultWindow, can_run |-> TRUE, n |-> 0]

NoWidgets == [strat |-> "Buy & Hold", fast |-> DefaultFast, slow |-> DefaultSlow,
              window |-> DefaultWindow]

PageIdle ==
    /\ pc = "off"
    /\ event = "none"
    /\ widgets = NoWidgets
    /\ csv = [exists |-> FALSE, rows |-> 0, last_click |-> 0]
    /\ locals = NoLocals
    /\ shown = {}
    /\ invoked = << >>


\* ------------------------------------------------------- loading the CSV
\* A raw cell of the time column is a timestamp text (v: the instant it
\* denotes) or some other text; a raw cell of the price column is a
\* number text (v: its value) or some other text.
NaT == [ok |-> FALSE, v |-> 0]

\* pd.to_datetime(..., errors="coerce") on one cell
to_datetime(cell) == IF cell.kind = "stamp" THEN [ok |-> TRUE, v |-> cell.v] ELSE NaT

\* pd.to_numeric(..., errors="coerce") on one cell
to_numeric(cell) == IF cell.kind = "number" THEN Rat(cell.v, 1) ELSE NaN

ParseColumns(rows) ==
    [i \in DOMAIN rows |->
        [time |-> to_datetime(rows[i].time), price |-> to_numeric(rows[i].price)]]

\* df.dropna(subset=["time", "price"])
DropNaTimePrice(rows) == SelectSeq(rows, LAMBDA r : r.time.ok /\ ~IsNaN(r.price))

\* Fault variant of SortValuesByTime: the sort left out.
SortSkipped(rows) == {rows}

\* df.sort_values("time").reset_index(drop=True): the rows in ascending time
\* order. The default sort is not stable, so rows with equal timestamps may
\* come out in any order: the set of the possible results.
RECURSIVE SortValuesByTime(_)
SortValuesByTime(rows) ==
    IF rows = << >> THEN {<< >>}
    ELSE LET n == Len(rows)
             least == {i \in 1 .. n : \A j \in 1 .. n : rows[i].time.v <= rows[j].time.v}
             Without(i) == [k \in 1 .. n - 1 |-> IF k < i THEN rows[k] ELSE rows[k + 1]]
         IN  UNION {{<<rows[i]>> \o rest : rest \in SortValuesByTime(Without(i))} :
                       i \in least}

\* load_data: an empty frame when the file is missing, else parse, drop, sort.
load_data(file) ==
    IF ~file.exists THEN {<< >>}
    ELSE SortValuesByTime(DropNaTimePrice(ParseColumns(file.rows)))

\* scripts/daily_report.py main(): the same cleaning of the file it read.
report_clean(file) == SortValuesByTime(DropNaTimePrice(ParseColumns(file.rows)))

NoLoaded == [fn |-> "none", rows |-> << >>]

LoadIdle ==
    /\ raw = [exists |-> FALSE, rows |-> << >>]
    /\ loaded = NoLoaded

\* -------------------------------------------- specification: strategies
RECURSIVE SeqsUpTo(_, _)
SeqsUpTo(S, n) ==
    IF n = 0 THEN {<< >>}
    ELSE LET shorter == SeqsUpTo(S, n - 1)
         IN  shorter \cup {Append(s, x) : s \in {t \in shorter : Len(t) = n - 1}, x \in S}

Prices == 1 .. MaxPrice

Windows == 1 .. MaxWin

NoCall == [fn |-> "none", fast |-> 0, slow |-> 0, window |-> 0]

NoOut == [ret |-> NoColumn, sma_fast |-> NoColumn, sma_slow |-> NoColumn,
          mom |-> NoColumn, pos |-> NoColumn, strat_ret |-> NoColumn,
          strat_value |-> NoColumn]

InitStrategy ==
    /\ df \in SeqsUpTo(Prices, MaxLen)
    /\ out = NoOut
    /\ call = NoCall
    /\ series = << >>
    /\ metric = NoMetric
    /\ PortfolioIdle
    /\ BuildIdle
    /\ PageIdle
    /\ LoadIdle
    /\ stats = NoStats

RunBuyAndHold ==
    /\ call.fn = "none"
    /\ out' = buy_and_hold(df)
    /\ call' = [NoCall EXCEPT !.fn = "buy_and_hold"]
    /\ UNCHANGED <<df, metricVars, portVars, buildVars, pageVars, loadVars, stats>>

RunSmaCrossover ==
    /\ call.fn = "none"
    /\ \E f \in Windows, s \in Windows :
        /\ out' = sma_crossover(df, f, s)
        /\ call' = [NoCall EXCEPT !.fn = "sma_crossover", !.fast = f, !.slow = s]
    /\ UNCHANGED <<df, metricVars, portVars, buildVars, pageVars, loadVars, stats>>

RunMomentum ==
    /\ call.fn = "none"
    /\ \E w \in Windows :
        /\ out' = momentum_strategy(df, w)
        /\ call' = [NoCall EXCEPT !.fn = "momentum_strategy", !.window = w]
    /\ UNCHANGED <<df, metricVars, portVars, buildVars, pageVars, loadVars, stats>>

NextStrategy == RunBuyAndHold \/ RunSmaCrossover \/ RunMomentum

SpecStrategy == InitStrategy /\ [][NextStrategy]_vars

\* ----------------------------------------------- specification: metrics
\* k/2 for k in -1 .. MaxNum, and a missing value
MetricValues == {NaN} \cup {Rat(k, 2) : k \in -1 .. MaxNum}

InitMetrics ==
    /\ series \in SeqsUpTo(MetricValues, MaxSeries)
    /\ metric = NoMetric
    /\ df = << >>
    /\ out = NoOut
    /\ call = NoCall
    /\ PortfolioIdle
    /\ BuildIdle
    /\ PageIdle
    /\ LoadIdle
    /\ stats = NoStats

RunSharpeRatio ==
    /\ metric.fn = "none"
    /\ metric' = [fn |-> "sharpe_ratio", val |-> sharpe_ratio(series)]
    /\ UNCHANGED <<series, stratVars, portVars, buildVars, pageVars, loadVars, stats>>

RunAnnualVolatility ==
    /\ metric.fn = "none"
    /\ metric' = [fn |-> "annual_volatility", val |-> annual_volatility(series)]
    /\ UNCHANGED <<series, stratVars, portVars, buildVars, pageVars, loadVars, stats>>

RunMaxDrawdown ==
    /\ metric.fn = "none"
    /\ metric' = [fn |-> "max_drawdown", val |-> max_drawdown(series)]
    /\ UNCHANGED <<series, stratVars, portVars, buildVars, pageVars, loadVars, stats>>

RunReportMaxDrawdown ==
    /\ metric.fn = "none"
    /\ metric' = [fn |-> "report_max_drawdown", val |-> report_max_drawdown(series)]
    /\ UNCHANGED <<series, stratVars, portVars, buildVars, pageVars, loadVars, stats>>

NextMetrics ==
    RunSharpeRatio \/ RunAnnualVolatility \/ RunMaxDrawdown \/ RunReportMaxDrawdown

SpecMetrics == InitMetrics /\ [][NextMetrics]_vars

\* --------------------------------------------- specification: portfolio
Labels == {"A", "B", "C"}

\* The label sequences in the fixed order A, B, C (a dict's keys are unique).
LabelSeqs ==
    {<< >>, <<"A">>, <<"B">>, <<"C">>, <<"A", "B">>, <<"A", "C">>, <<"B", "C">>,
     <<"A", "B", "C">>}

ReturnValues == {Rat(-1, 20), Rat(1, 10)}

\* k/5 for k in -1 .. MaxW
WeightValues == {Rat(k, 5) : k \in -1 .. MaxW}

RowsOver(columns) ==
    SeqsUpTo([DOMAIN columns -> ReturnValues], MaxRows)

WeightMaps == UNION {[D -> WeightValues] : D \in SUBSET Labels}

Feeds == [status : {200}, ts : SUBSET (1 .. MaxT)] \cup {[status |-> 429, ts |-> {}]}

InitAggregate ==
    /\ \E columns \in LabelSeqs : \E rows \in RowsOver(columns) :
           returns_m = [columns |-> columns, rows |-> rows]
    /\ weights \in WeightMaps
    /\ port = [NoPort EXCEPT !.status = "todo"]
    /\ page_msg = ""
    /\ BuildIdle

InitBuild ==
    /\ assets \in LabelSeqs
    /\ feeds \in [{assets[i] : i \in DOMAIN assets} -> Feeds]
    /\ prices_m = [NoMatrix EXCEPT !.status = "todo"]
    /\ PortfolioIdle

InitPortfolio ==
    /\ InitAggregate \/ InitBuild
    /\ df = << >>
    /\ out = NoOut
    /\ call = NoCall
    /\ series = << >>
    /\ metric = NoMetric
    /\ PageIdle
    /\ LoadIdle
    /\ stats = NoStats

\* run_quant_b_page: try compute_portfolio_returns, on an exception show the
\* error and return.
AggregatePortfolio ==
    /\ port.status = "todo"
    /\ port' = compute_portfolio_returns(returns_m, weights)
    /\ page_msg' = IF port'.status = "raised"
                   THEN "Problem with portfolio weights: " \o port'.error
                   ELSE ""
    /\ UNCHANGED <<returns_m, weights, stratVars, metricVars, buildVars, pageVars, loadVars, stats>>

BuildPriceMatrix ==
    /\ prices_m.status = "todo"
    /\ prices_m' = build_price_matrix(assets, feeds)
    /\ UNCHANGED <<assets, feeds, stratVars, metricVars, portVars, pageVars, loadVars, stats>>

NextPortfolio == AggregatePortfolio \/ BuildPriceMatrix

SpecPortfolio == InitPortfolio /\ [][NextPortfolio]_vars

\* -------------------------------------------------- specification: page
\* Streamlit runs the script of app.py from top to bottom on every user
\* interaction; one pass is sidebar -> parameters -> backtest.
InitPage ==
    /\ pc = "idle"
    /\ event = "none"
    /\ widgets = NoWidgets
    /\ \E e \in BOOLEAN : \E r \in 0 .. MaxData :
           csv = [exists |-> e, rows |-> IF e THEN r ELSE 0, last_click |-> 0]
    /\ locals = NoLocals
    /\ shown = {}
    /\ invoked = << >>
    /\ df = << >>
    /\ out = NoOut
    /\ call = NoCall
    /\ series = << >>
    /\ metric = NoMetric
    /\ PortfolioIdle
    /\ BuildIdle
    /\ LoadIdle
    /\ stats = NoStats

\* The user changes a widget or clicks a button: the script starts over.
StartPass ==
    /\ pc = "idle"
    /\ \E e \in {"select", "fetch", "clear"} : event' = e
    /\ \E st \in Strategies :
       \E f \in MinFast .. MaxSlider, sl \in MinSlow .. MaxSlider,
          w \in MinWindow .. MaxSlider :
           widgets' = [strat |-> st,
                       fast |-> IF st = "SMA crossover" THEN f ELSE DefaultFast,
                       slow |-> IF st = "SMA crossover" THEN sl ELSE DefaultSlow,
                       window |-> IF st = "Momentum" THEN w ELSE DefaultWindow]
    /\ pc' = "sidebar"
    /\ locals' = NoLocals
    /\ shown' = {}
    /\ invoked' = << >>
    /\ UNCHANGED <<csv, stratVars, metricVars, portVars, buildVars, loadVars, stats>>

\* "Fetch & save price": throttled within 3 s of the last save, else the API
\* call either fails (error shown) or the price is appended to the CSV.
SidebarFetch ==
    /\ pc = "sidebar"
    /\ event = "fetch"
    /\ \/ /\ csv.last_click = 1
          /\ shown' = shown \cup {"Wait 2-3 seconds and try again."}
          /\ UNCHANGED csv
       \/ /\ shown' = shown \cup {"Error"}
          /\ UNCHANGED csv
       \/ /\ csv.rows < MaxData
          /\ csv' = [exists |-> TRUE, rows |-> csv.rows + 1, last_click |-> 1]
          /\ shown' = shown \cup {"Saved"}
    /\ pc' = "params"
    /\ UNCHANGED <<event, widgets, locals, invoked, stratVars, metricVars, portVars,
                   buildVars, loadVars, stats>>

\* "Clear local CSV"
SidebarClear ==
    /\ pc = "sidebar"
    /\ event = "clear"
    /\ IF csv.exists
       THEN /\ csv' = [csv EXCEPT !.exists = FALSE, !.rows = 0]
            /\ shown' = shown \cup {"prices.csv removed."}
       ELSE /\ shown' = shown \cup {"No file to delete."}
            /\ UNCHANGED csv
    /\ pc' = "params"
    /\ UNCHANGED <<event, widgets, locals, invoked, stratVars, metricVars, portVars,
                   buildVars, loadVars, stats>>

SidebarNoButton ==
    /\ pc = "sidebar"
    /\ event = "select"
    /\ pc' = "params"
    /\ UNCHANGED <<event, widgets, csv, locals, shown, invoked, stratVars, metricVars,
                   portVars, buildVars, loadVars, stats>>

\* df = load_data(); the strategy selectbox, the sliders and the validation.
StrategyParams ==
    /\ pc = "params"
    /\ locals' = ReadParams(widgets, IF csv.exists THEN csv.rows ELSE 0)
    /\ shown' = IF widgets.strat = "SMA crossover" /\ widgets.slow <= widgets.fast
                THEN shown \cup {SlowWarning} ELSE shown
    /\ pc' = "backtest"
    /\ UNCHANGED <<event, widgets, csv, invoked, stratVars, metricVars, portVars,
                   buildVars, loadVars, stats>>

\* "Chart and backtest": too little data, parameters not ready, or the
\* strategy and the metrics run.
Backtest ==
    /\ pc = "backtest"
    /\ IF locals.n < MinRowsToBacktest
       THEN /\ shown' = shown \cup {NotEnoughInfo}
            /\ UNCHANGED invoked
       ELSE IF ~locals.can_run
       THEN /\ shown' = shown \cup {NotReadyInfo}
            /\ UNCHANGED invoked
       ELSE /\ invoked' = <<StrategyCall(locals)>> \o MetricCalls
            /\ UNCHANGED shown
    /\ pc' = "idle"
    /\ UNCHANGED <<event, widgets, csv, locals, stratVars, metricVars, portVars,
                   buildVars, loadVars, stats>>

NextPage ==
    StartPass \/ SidebarFetch \/ SidebarClear \/ SidebarNoButton \/ StrategyParams
        \/ Backtest

SpecPage == InitPage /\ [][NextPage]_vars

\* ----------------------------------------------- specification: loading
TimeCells == {[kind |-> "text", v |-> 0]} \cup {[kind |-> "stamp", v |-> t] : t \in 1 .. MaxStamp}

PriceCells == {[kind |-> "text", v |-> 0], [kind |-> "number", v |-> 1],
               [kind |-> "number", v |-> 2]}

RawRows == [time : TimeCells, price : PriceCells]

InitLoad ==
    /\ \/ raw = [exists |-> FALSE, rows |-> << >>]
       \/ \E rows \in SeqsUpTo(RawRows, MaxCsv) : raw = [exists |-> TRUE, rows |-> rows]
    /\ loaded = NoLoaded
    /\ stats = NoStats
    /\ df = << >>
    /\ out = NoOut
    /\ call = NoCall
    /\ series = << >>
    /\ metric = NoMetric
    /\ PortfolioIdle
    /\ BuildIdle
    /\ PageIdle

LoadData ==
    /\ loaded.fn = "none"
    /\ \E rows \in load_data(raw) : loaded' = [fn |-> "load_data", rows |-> rows]
    /\ UNCHANGED <<raw, stats, stratVars, metricVars, portVars, buildVars, pageVars>>

\* daily_report.py reads the file only when it exists.
ReportClean ==
    /\ loaded.fn = "none"
    /\ raw.exists
    /\ \E rows \in report_clean(raw) : loaded' = [fn |-> "daily_report", rows |-> rows]
    /\ UNCHANGED <<raw, stats, stratVars, metricVars, portVars, buildVars, pageVars>>

NextLoad == LoadData \/ ReportClean

SpecLoad == InitLoad /\ [][NextLoad]_vars

\* ---------------------------------- specification: portfolio statistics
InitStats ==
    /\ series \in SeqsUpTo(MetricValues, MaxSeries)
    /\ stats = NoStats
    /\ metric = NoMetric
    /\ df = << >>
    /\ out = NoOut
    /\ call = NoCall
    /\ PortfolioIdle
    /\ BuildIdle
    /\ PageIdle
    /\ LoadIdle

RunBasicStats ==
    /\ stats.fn = "none"
    /\ stats' = basic_stats(series)
    /\ UNCHANGED <<stratVars, metricVars, portVars, buildVars, pageVars, loadVars>>

ShowIndicators ==
    /\ stats.fn = "basic_stats"
    /\ stats' = [stats EXCEPT !.fn = "shown", !.panel = indicators(stats)]
    /\ UNCHANGED <<stratVars, metricVars, portVars, buildVars, pageVars, loadVars>>

NextStats == RunBasicStats \/ ShowIndicators

SpecStats == InitStats /\ [][NextStats]_vars

\* ------------------------------------------------ claims: strategies
RECURSIVE IntSum(_, _, _)
IntSum(p, lo, hi) == IF lo > hi THEN 0 ELSE p[lo] + IntSum(p, lo + 1, hi)

RanLagged == call.fn \in {"sma_crossover", "momentum_strategy"}

\* The position column the strategy recorded in `call` computes on prices q.
PosOn(q) ==
    IF call.fn = "sma_crossover" THEN sma_crossover(q, call.fast, call.slow).pos
    ELSE momentum_strategy(q, call.window).pos

\* C1: no look-ahead. In the result of sma_crossover and momentum_strategy the
\* strategy return of the first row is 0, every later row t has
\* strat_ret[t] = pos[t-1] * ret[t] with ret[t] = price[t]/price[t-1] - 1, and
\* replacing the price of row t or of any later row leaves pos[t-1] unchanged.
C1_NoLookAhead ==
    RanLagged =>
        /\ Len(out.strat_ret) = Len(df)
        /\ Len(df) >= 1 => out.strat_ret[1] = Zero
        /\ \A i \in 2 .. Len(df) :
            /\ out.ret[i] = Rat(df[i] - df[i - 1], df[i - 1])
            /\ out.strat_ret[i] = Mul(out.pos[i - 1], out.ret[i])
        /\ \A j \in 1 .. Len(df) : \A v \in Prices :
            LET q == [df EXCEPT ![j] = v]
            IN  \A i \in 1 .. j - 1 : PosOn(q)[i] = out.pos[i]

\* A lagged strategy ran, was invested over a row with a non-zero return and
\* left the market on that very row: the lag decides the strategy return.
C1_Witness ==
    /\ RanLagged
    /\ \E i \in 2 .. Len(df) :
        /\ out.pos[i - 1] = One
        /\ out.pos[i] = Zero
        /\ out.strat_ret[i] # Zero

\* C2: buy_and_hold on a price series of length n >= 1 has strat_ret = ret
\* (the raw return, 0 on the first row) on every row, value[0] = 1,
\* value[t] = value[t-1] * (1 + ret[t]) and value[t] = price[t] / price[0].
C2_BuyAndHold ==
    (call.fn = "buy_and_hold" /\ Len(df) >= 1) =>
        /\ Len(out.strat_value) = Len(df)
        /\ out.strat_ret = out.ret
        /\ out.ret[1] = Zero
        /\ out.strat_value[1] = One
        /\ \A i \in 2 .. Len(df) :
            /\ out.ret[i] = Rat(df[i] - df[i - 1], df[i - 1])
            /\ out.strat_value[i] = Mul(out.strat_value[i - 1], Add(One, out.ret[i]))
        /\ \A i \in 1 .. Len(df) : out.strat_value[i] = Rat(df[i], df[1])

\* Buy and hold ran on a series that rose and then fell below its start.
C2_Witness ==
    /\ call.fn = "buy_and_hold"
    /\ Len(df) >= 3
    /\ df[2] > df[1]
    /\ df[Len(df)] < df[1]
    /\ Gt(One, out.strat_value[Len(df)])

\* C3: in the result of sma_crossover with fast < slow, pos[t] is 1 exactly
\* when both averages are defined at t (t >= slow - 1) and the fast average
\* is strictly above the slow one, and 0 otherwise; the first slow-1
\* positions are 0 and every position is 0 or 1.
C3_SmaPosition ==
    (call.fn = "sma_crossover" /\ call.fast < call.slow) =>
        /\ Len(out.pos) = Len(df)
        /\ \A i \in 1 .. Len(df) :
            /\ out.pos[i] \in {Zero, One}
            /\ out.pos[i] = One <=>
                /\ i >= call.slow
                /\ call.slow * IntSum(df, i - call.fast + 1, i)
                     > call.fast * IntSum(df, i - call.slow + 1, i)
            /\ i <= call.slow - 1 => out.pos[i] = Zero

\* sma_crossover ran with fast < slow and produced a position 1, and a
\* position 0 on a row where both averages are defined and equal (a tie).
C3_Witness ==
    /\ call.fn = "sma_crossover"
    /\ call.fast < call.slow
    /\ \E i \in 1 .. Len(df) : out.pos[i] = One
    /\ \E i \in call.slow .. Len(df) :
        /\ out.sma_fast[i] = out.sma_slow[i]
        /\ out.pos[i] = Zero

\* ------------------------------------------------- claims: portfolio
Aggregated == port.status \in {"raised", "returned"}

ColumnSet == {returns_m.columns[i] : i \in DOMAIN returns_m.columns}

\* The sum over a set of columns of the declared weight (0 when undeclared),
\* each multiplied by coefficient[column].
RECURSIVE WeightedSum(_, _)
WeightedSum(cols, coefficient) ==
    IF cols = {} THEN Zero
    ELSE LET c == CHOOSE x \in cols : TRUE
         IN  Add(Mul(IF c \in DOMAIN weights THEN weights[c] ELSE Zero, coefficient[c]),
                 WeightedSum(cols \ {c}, coefficient))

\* The raw sum of the weights over the matrix columns.
RawSum == WeightedSum(ColumnSet, [c \in ColumnSet |-> One])

ColumnIndex(c) == CHOOSE i \in DOMAIN returns_m.columns : returns_m.columns[i] = c

\* C4: with weights whose raw sum over the matrix columns is exactly 0,
\* compute_portfolio_returns raises the weights-invalid error, returns no
\* portfolio series and never evaluates the division by the weight sum; the
\* page reports the error.
C4_ZeroSumRejected ==
    (Aggregated /\ RawSum = Zero) =>
        /\ port.status = "raised"
        /\ port.error = SumZeroError
        /\ port.divisions = 0
        /\ port.port_ret = << >>
        /\ page_msg = "Problem with portfolio weights: " \o SumZeroError

\* The call was rejected although a column carries a non-zero weight (the
\* column weights cancel) and the matrix has rows.
C4_Witness ==
    /\ port.status = "raised"
    /\ Len(returns_m.rows) >= 1
    /\ \E c \in ColumnSet : c \in DOMAIN weights /\ weights[c] # Zero

\* C5: with a non-zero raw sum over the matrix columns the call returns; each
\* applied weight is the declared weight (0 when undeclared) divided by the
\* raw sum, the applied weights sum to 1, and the portfolio return of every
\* row is the sum over the columns of applied weight * return, so a weight
\* declared for an asset outside the matrix contributes nothing; weights
\* {A: 0.6, B: 0.4} on returns {A: 0.10, B: -0.05} give 0.04.
C5_WeightedReturn ==
    (Aggregated /\ RawSum # Zero) =>
        /\ port.status = "returned"
        /\ Len(port.w) = Len(returns_m.columns)
        /\ \A c \in ColumnSet :
               Mul(port.w[ColumnIndex(c)], RawSum)
                   = (IF c \in DOMAIN weights THEN weights[c] ELSE Zero)
        /\ SumRange(port.w, 1, Len(port.w)) = One
        /\ Len(port.port_ret) = Len(returns_m.rows)
        /\ \A t \in DOMAIN returns_m.rows :
               Mul(port.port_ret[t], RawSum)
                   = WeightedSum(ColumnSet,
                                 [c \in ColumnSet |-> returns_m.rows[t][ColumnIndex(c)]])
        /\ (/\ returns_m.columns = <<"A", "B">>
            /\ "A" \in DOMAIN weights /\ "B" \in DOMAIN weights
            /\ weights["A"] = Rat(3, 5) /\ weights["B"] = Rat(2, 5)
            /\ Len(returns_m.rows) >= 1
            /\ returns_m.rows[1] = <<Rat(1, 10), Rat(-1, 20)>>)
               => port.port_ret[1] = Rat(1, 25)

\* The call returned a non-zero portfolio return with a raw sum other than 1,
\* a column without a declared weight and a weight declared for an asset
\* that is not a column.
C5_Witness ==
    /\ port.status = "returned"
    /\ RawSum # One
    /\ \E c \in ColumnSet : c \notin DOMAIN weights
    /\ \E a \in DOMAIN weights : a \notin ColumnSet /\ weights[a] # Zero
    /\ \E t \in DOMAIN port.port_ret : port.port_ret[t] # Zero

\* C6 as stated: a matrix without asset columns is rejected with the "empty
\* universe" error for every weight mapping, and any asset count >= 1 is
\* accepted (when the column weights do not sum to 0).
C6_EmptyUniverseError ==
    Aggregated =>
        /\ returns_m.columns = << >> =>
               (port.status = "raised" /\ port.error = NoAssetsError)
        /\ (Len(returns_m.columns) >= 1 /\ RawSum # Zero) => port.status = "returned"

\* C6 amended: a matrix without asset columns is rejected for every weight
\* mapping, with the zero-weight-sum error (its empty weight vector sums to
\* 0); the "no assets" error is raised by build_price_matrix when it is given
\* no asset; the aggregator accepts any asset count >= 1 whose column weights
\* do not sum to 0.
C6_EmptyMatrixRejected ==
    /\ Aggregated =>
        /\ returns_m.columns = << >> =>
               /\ port.status = "raised"
               /\ port.error = SumZeroError
               /\ port.port_ret = << >>
        /\ (Len(returns_m.columns) >= 1 /\ RawSum # Zero) => port.status = "returned"
    /\ (prices_m.status \in {"raised", "returned"} /\ assets = << >>) =>
        /\ prices_m.status = "raised"
        /\ prices_m.error = NoAssetsError

\* A matrix without columns but with a row was rejected although the weight
\* mapping declares a non-zero weight.
C6_Witness ==
    /\ port.status = "raised"
    /\ returns_m.columns = << >>
    /\ Len(returns_m.rows) >= 1
    /\ \E a \in DOMAIN weights : weights[a] # Zero

\* ---------------------------------------------- claims: price matrix
AssetSet == {assets[i] : i \in DOMAIN assets}

CommonTimestamps == {t \in 1 .. MaxT : \A a \in AssetSet : t \in feeds[a].ts}

\* C7: the matrix build_price_matrix returns has one column per asset, its
\* row timestamps are exactly the timestamps present in every asset's series
\* (in ascending order), and every row holds each asset's price at that
\* timestamp, with no missing cell.
C7_InnerJoin ==
    prices_m.status = "returned" =>
        /\ prices_m.columns = assets
        /\ Len(assets) >= 1
        /\ {prices_m.index[i] : i \in DOMAIN prices_m.index} = CommonTimestamps
        /\ Len(prices_m.index) = Cardinality(CommonTimestamps)
        /\ \A i \in 1 .. Len(prices_m.index) - 1 :
               prices_m.index[i] < prices_m.index[i + 1]
        /\ DOMAIN prices_m.cell = CommonTimestamps
        /\ \A t \in CommonTimestamps :
            /\ Len(prices_m.cell[t]) = Len(assets)
            /\ \A i \in DOMAIN assets :
                   prices_m.cell[t][i] = Rat(Quote(assets[i], t), 1)

\* Three series that overlap only partly were aligned: some timestamp is in
\* every series and kept, another is in one series only and dropped.
C7_Witness ==
    /\ prices_m.status = "returned"
    /\ Len(assets) = 3
    /\ Len(prices_m.index) >= 1
    /\ \E a \in AssetSet : \E t \in feeds[a].ts : t \notin CommonTimestamps
    /\ \E a, b \in AssetSet : feeds[a].ts # feeds[b].ts

\* --------------------------------------------------- claims: metrics
NonMissing(s) == {i \in DOMAIN s : ~IsNaN(s[i])}

AllIdentical(s) == \A i, j \in NonMissing(s) : s[i] = s[j]

AllPositive(s) == \A i \in DOMAIN s : Gt(s[i], Zero)

\* m is the least ratio values[t]/values[u] over the pairs u <= t, which for
\* positive values is the least values[t]/max(values[0..t]).
IsLeastRatio(m, s) ==
    /\ \A t \in DOMAIN s : \A u \in 1 .. t : ~Gt(Mul(m, s[u]), s[t])
    /\ \E t \in DOMAIN s : \E u \in 1 .. t : Mul(m, s[u]) = s[t]

\* C9: max_drawdown (both copies) returns 0 for an empty series and for a
\* length-1 series; for a non-empty series of positive values it returns the
\* minimum over t of values[t]/max(values[0..t]) - 1, which is <= 0.
C9_MaxDrawdown ==
    metric.fn \in {"max_drawdown", "report_max_drawdown"} =>
        /\ Len(series) = 0 => metric.val = Zero
        /\ (Len(series) = 1 /\ AllPositive(series)) => metric.val = Zero
        /\ (Len(series) >= 1 /\ AllPositive(series)) =>
            /\ metric.val.k = "num"
            /\ ~Gt(metric.val, Zero)
            /\ IsLeastRatio(Add(metric.val, One), series)

\* The part of C9 that the code satisfies: the non-empty positive series.
C9_NonEmptyPart ==
    (/\ metric.fn \in {"max_drawdown", "report_max_drawdown"}
     /\ Len(series) >= 1 /\ AllPositive(series)) =>
        /\ metric.val.k = "num"
        /\ ~Gt(metric.val, Zero)
        /\ IsLeastRatio(Add(metric.val, One), series)
        /\ Len(series) = 1 => metric.val = Zero

\* --------------------------------------------------- claims: loading
Cleaned == loaded.fn \in {"load_data", "daily_report"}

\* The indexes of the raw rows whose timestamp and price are both well formed.
ValidRaw ==
    {i \in DOMAIN raw.rows :
        raw.rows[i].time.kind = "stamp" /\ raw.rows[i].price.kind = "number"}

Occurrences(t, p) ==
    Cardinality({i \in ValidRaw : raw.rows[i].time.v = t /\ raw.rows[i].price.v = p})

OnlyParsedRows ==
    /\ Len(loaded.rows) = Cardinality(ValidRaw)
    /\ \A i \in DOMAIN loaded.rows :
        /\ loaded.rows[i].time.ok
        /\ loaded.rows[i].price.k = "num"
    /\ \A t \in 1 .. MaxStamp : \A p \in 1 .. 2 :
           Cardinality({i \in DOMAIN loaded.rows :
                           /\ loaded.rows[i].time.v = t
                           /\ loaded.rows[i].price = Rat(p, 1)})
               = Occurrences(t, p)

\* C11 as stated: the cleaned series holds only rows whose timestamp and
\* price both parsed, and its timestamps are strictly increasing.
C11_StrictlyIncreasing ==
    Cleaned =>
        /\ OnlyParsedRows
        /\ \A i \in 1 .. Len(loaded.rows) - 1 :
               loaded.rows[i].time.v < loaded.rows[i + 1].time.v

\* C11 amended: the cleaned series holds exactly the rows whose timestamp and
\* price both parsed (each as often as it was written), in ascending
\* timestamp order; rows repeating a timestamp are all kept, so timestamps
\* are non-decreasing, and strictly increasing only when the well-formed raw
\* rows carry distinct timestamps.
C11_SortedKeepsDuplicates ==
    Cleaned =>
        /\ OnlyParsedRows
        /\ \A i \in 1 .. Len(loaded.rows) - 1 :
               loaded.rows[i].time.v <= loaded.rows[i + 1].time.v
        /\ (\A i, j \in ValidRaw : i # j => raw.rows[i].time.v # raw.rows[j].time.v)
               => \A i \in 1 .. Len(loaded.rows) - 1 :
                      loaded.rows[i].time.v < loaded.rows[i + 1].time.v

\* load_data cleaned a file with a malformed row, rows out of order and a
\* repeated timestamp: two output rows share a timestamp.
C11_Witness ==
    /\ loaded.fn = "load_data"
    /\ Cardinality(ValidRaw) < Len(raw.rows)
    /\ \E i, j \in ValidRaw : i < j /\ raw.rows[i].time.v > raw.rows[j].time.v
    /\ \E i \in 1 .. Len(loaded.rows) - 1 :
           loaded.rows[i].time.v = loaded.rows[i + 1].time.v

\* ------------------------------------- claims: portfolio statistics
OneObservation == Len(series) = 1 /\ ~IsNaN(series[1])

\* C12: data insufficiency never yields an undefined statistic: for a return
\* series of exactly one observation basic_stats reports volatility and
\* annualized_volatility equal to 0, and for an empty series it reports no
\* statistics (and the page shows the not-enough-data notice).
C12_InsufficientDataDefined ==
    /\ stats.fn # "none" =>
        /\ series = << >> => stats.empty
        /\ OneObservation =>
            /\ ~stats.empty
            /\ stats.volatility = Zero
            /\ stats.annualized_volatility = Zero
    /\ stats.fn = "shown" /\ series = << >> => stats.panel = NotEnoughData

\* The part of C12 that holds: the empty series gives {} and the notice.
C12_EmptyPart ==
    /\ stats.fn # "none" /\ series = << >> => stats.empty
    /\ stats.fn = "shown" /\ series = << >> => stats.panel = NotEnoughData

\* What the code does with one observation: both volatilities are NaN and the
\* page prints "nan %", while the other statistics are numbers.
C12_OneObservationIsNaN ==
    /\ stats.fn # "none" /\ OneObservation =>
        /\ ~stats.empty
        /\ IsNaN(stats.volatility)
        /\ IsNaN(stats.annualized_volatility)
        /\ stats.mean_return = series[1]
        /\ stats.final_value = Add(One, series[1])
    /\ stats.fn = "shown" /\ OneObservation => stats.panel = "nan %"

\* ------------------------------------------------------ claims: page
InvalidSma == widgets.strat = "SMA crossover" /\ widgets.slow <= widgets.fast

PassEnded == pc = "idle" /\ event # "none"

\* C10: validation precedes computation. In a pass with SMA crossover
\* selected and slow <= fast no strategy and no metric function is invoked at
\* any point of the pass, and by the end of the pass (whatever the number of
\* loaded rows) the invalid combination has been reported; every call of
\* sma_crossover has slow > fast, and calls happen only after the parameter
\* block has set can_run.
C10_ValidationFirst ==
    /\ (pc # "idle" \/ PassEnded) =>
        /\ InvalidSma => invoked = << >>
        /\ (InvalidSma /\ pc \in {"backtest", "idle"}) => SlowWarning \in shown
    /\ \A i \in DOMAIN invoked :
           invoked[i].fn = "sma_crossover" => invoked[i].b > invoked[i].a
    /\ invoked # << >> => (PassEnded /\ locals.can_run /\ locals.strat = widgets.strat)

\* A pass with enough data and SMA slow <= fast has ended: the warning and
\* the not-ready notice are shown and nothing was invoked.
C10_Witness ==
    /\ PassEnded
    /\ InvalidSma
    /\ locals.n >= MinRowsToBacktest
    /\ SlowWarning \in shown
    /\ NotReadyInfo \in shown
    /\ invoked = << >>

\* A pass with a valid SMA combination has run sma_crossover and the metrics.
C10_RunWitness ==
    /\ PassEnded
    /\ Len(invoked) = 5
    /\ invoked[1].fn = "sma_crossover"

====
